---- MODULE Spec2Model ----
(***************************************************************************)
(* Billing transaction engine of Bill-Me (src/app.py): allocation of bill  *)
(* numbers per product type (get_next_bill_number), bill creation with     *)
(* stock debit (generate_pdf), cancellation with stock credit and number   *)
(* reclaim (cancel_bill, decrement_bill_number); the maintenance scripts   *)
(* src/migration.py and src/reset_new_bills.py.                            *)
(*                                                                         *)
(* Database.  settings, stock, bills and bill_items are the COMMITTED rows  *)
(* of the tables settings, products, bills and bill_items.  Every handler  *)
(* works in its own SQLAlchemy session (proc[p]): objects it has loaded    *)
(* keep the value read at load time (identity map), its changes are        *)
(* written as absolute column values, and they reach the committed rows    *)
(* only at db.session.commit(); db.session.rollback() discards them.       *)
(* Reads see the latest committed rows (READ COMMITTED, the default of the *)
(* PostgreSQL deployment the code targets, src/app.py:28-29).              *)
(*                                                                         *)
(* Names.  The handlers name some attributes differently from the model    *)
(* classes (bill.id / bill_id, customer_village, qty / quantity, stock /   *)
(* stock_qty, product_name / name) and call datetime.datetime.strptime on  *)
(* the imported class (src/app.py:5, 605).  Taken literally every          *)
(* generate_pdf call would raise before its first insert and every         *)
(* cancel_bill call at its item query.  The model follows the handlers'    *)
(* data flow instead: each attribute is the column of the same role, and   *)
(* the bill date is parsed.                                                *)
(*                                                                         *)
(* Rendering.  After the commit of generate_pdf the PDF is rendered        *)
(* (src/app.py:653-680); whether that part raises is an input (renderOk).  *)
(***************************************************************************)
EXTENDS Integers, Sequences, FiniteSets, TLC

\* ---------------------------------------------------------------- bounds
NProcs == 2          \* request handlers that may run at the same time
MaxAlloc == 3        \* numbers a product type's counter may advance
MaxItems == 2        \* line items of one request
SmallAlloc == 2      \* MaxAlloc of the runs with renames or concurrent handlers
ConcItems == 1       \* MaxItems of the runs with concurrent handlers
MaxQty == 1          \* largest quantity of one line item
InitQty == 1         \* stock of every product after catalogue set-up
MaxTotal == 2        \* largest grand total a caller sends
MaxLegacy == 3       \* largest bill number of the legacy scheme
MaxDate == 2         \* latest bill date of a legacy bill
MaxRuns == 2         \* runs of the migration script
MixedAlloc == 1      \* MaxAlloc of the runs with two product types

\* ------------------------------------------------------ program constants
StartValue == 100    \* first value of a bill-number setting

Procs == 1 .. NProcs
ProductTypes == {"fertilizer", "pesticide", "general"}

\* The product types billed in one run of the shop.
TypeSets == {{"fertilizer"}, {"general"}}
Products == {"Urea", "DAP"}         \* the catalogue after set-up
ProductNames == Products \cup {"Zinc"}

\* settings, stock, bills: the committed rows.  proc: the handlers.
\* bill_items: the committed rows of the table bill_items; a bill's field
\* items is the relationship Bill.items, the items stored with it.
\* issued, gaps, skipped: what has been observed of the numbers handed out.
\* run: the limits of this run (it never changes): the product types billed,
\* how far a counter may advance, how many items a request may have,
\* whether answers and handed-out numbers are kept on record, the grand
\* totals callers send, and whether the numbers of failed calls are kept on
\* record.
VARIABLES settings, stock, bills, bill_items, proc, issued, gaps, skipped, run

vars == <<settings, stock, bills, bill_items, proc, issued, gaps, skipped, run>>

SeqRuns ==
    [types : TypeSets, alloc : {MaxAlloc}, items : {MaxItems}, observe : {TRUE},
     totals : {{0}},
     skips : {TRUE}]

\* Renames do not depend on the product type billed: these runs bill the
\* type whose setting is created on first use.
CatalogueRuns ==
    [types : {{"general"}}, alloc : {SmallAlloc}, items : {MaxItems},
     observe : {TRUE}, totals : {{0}},
     skips : {FALSE}]

ConcRuns ==
    [types : TypeSets, alloc : {SmallAlloc}, items : {ConcItems}, observe : {FALSE},
     totals : {{0}},
     skips : {FALSE}]

\* Runs that bill the two product types whose numbers get the same prefix.
MixedRuns ==
    [types : {{"pesticide", "general"}}, alloc : {MixedAlloc},
     items : {ConcItems}, observe : {TRUE}, totals : {{0}},
     skips : {TRUE}]

\* Runs in which the caller sends any grand total.
TotalRuns ==
    [types : {{"general"}}, alloc : {SmallAlloc}, items : {MaxItems},
     observe : {TRUE}, totals : {0 .. MaxTotal},
     skips : {FALSE}]

\* ------------------------------------------------------------- requests
\* Line items of data['products']: every product of the catalogue in every
\* quantity, at rate 1 and without tax; items whose quantity is not positive
\* or whose rate, amount or tax is negative; one item that names no product.
\* The handler reads the list front to back, one item per pass of its loop;
\* the model draws each item when the loop reaches it.
Line(name, qty) ==
    [name |-> name, qty |-> qty, rate |-> 1, amount |-> qty, gst |-> 0]

Item ==
    {Line(name, qty) : name \in Products, qty \in 1 .. MaxQty}
        \cup {Line("Urea", 0), Line("Zinc", 1),
              [Line("Urea", 1) EXCEPT !.rate = -1],
              [Line("Urea", 1) EXCEPT !.amount = -1],
              [Line("Urea", 1) EXCEPT !.gst = -1]}

\* ----------------------------------------------------------- bill numbers
Prefix(product_type) == IF product_type = "fertilizer" THEN "F" ELSE "P"

\* Faulty variant of FormatBillNumber: the number returned is one ahead of
\* the counter that was stored.
FormatBillNumber_ahead(product_type, current_number) ==
    [pfx |-> Prefix(product_type), num |-> current_number + 1]

\* return f'{prefix}-{current_number}'
FormatBillNumber(product_type, current_number) ==
    [pfx |-> Prefix(product_type), num |-> current_number]

\* int(bill_number.split('-')[1])
SuffixOf(bill_number) == bill_number.num

\* The bill numbers a cancellation is asked for.
BillNumbers ==
    [pfx : {Prefix(t) : t \in run.types},
     num : StartValue + 1 .. StartValue + run.alloc]

Exists(bill_number) == \E b \in bills : b.bill_number = bill_number

BillWith(bill_number) == CHOOSE b \in bills : b.bill_number = bill_number

\* --------------------------------------------------------------- sessions
NoFun == [x \in {} |-> 0]

NoNumber == [pfx |-> "none", num |-> 0]

Idle ==
    [pc |-> "idle", kind |-> "none", product_type |-> "none", products |-> <<>>,
     bill_number |-> NoNumber, cur |-> 0, reclaim |-> FALSE,
     idx |-> 0, sstock |-> NoFun, resp |-> "none", grand_total |-> 0]

Free(p) == proc[p].pc \in {"idle", "done"}

InFlight == {q \in Procs : ~Free(q)}

\* The value a session sees for a product: its own loaded object if it has
\* one, else the committed row.
Loaded(p, name) == name \in DOMAIN proc[p].sstock

Known(p, name) == Loaded(p, name) \/ name \in DOMAIN stock

StockSeen(p, name) ==
    IF Loaded(p, name) THEN proc[p].sstock[name] ELSE stock[name]

SetLoaded(p, name, v) ==
    [n \in DOMAIN proc[p].sstock \cup {name} |->
        IF n = name THEN v ELSE proc[p].sstock[n]]

\* db.session.commit() for the product rows of session p.
FlushStock(p) ==
    [n \in DOMAIN stock |-> IF Loaded(p, n) THEN proc[p].sstock[n] ELSE stock[n]]

\* Faulty variant of RollbackStock: the session's pending product values are
\* written although the handler failed.
RollbackStock_keeps(p) == FlushStock(p)

\* db.session.rollback(): the committed product rows stay as they are.
RollbackStock(p) == stock

\* The handler returns resp and its session is closed.  What stays on record
\* is the answer and the number of items it had got through (idx).
Finish(p, resp) ==
    IF run.observe
    THEN [proc[p] EXCEPT !.pc = "done", !.resp = resp, !.sstock = NoFun,
                         !.idx = IF proc[p].kind = "create"
                                 THEN Len(proc[p].products) ELSE @ - 1,
                         !.products = <<>>, !.cur = 0, !.reclaim = FALSE,
                         !.grand_total = 0]
    ELSE Idle

\* ------------------------------------------------------------------ Init
\* init_db(): the fertilizer and pesticide settings are seeded, any other
\* product type's setting is created on first use.
Start ==
    /\ settings = [t \in {"fertilizer", "pesticide"} |-> StartValue]
    /\ stock = [n \in Products |-> InitQty]
    /\ bills = {}
    /\ proc = [p \in Procs |-> Idle]
    /\ issued = [t \in ProductTypes |-> 0]
    /\ gaps = [t \in ProductTypes |-> {}]
    /\ skipped = [t \in ProductTypes |-> {}]
    /\ bill_items = {}

Init == run \in SeqRuns /\ Start

InitCatalogue == run \in CatalogueRuns /\ Start

InitConc == run \in ConcRuns /\ Start

\* ------------------------------------------------- generate_pdf (CreateBill)
\* The handler is called and get_next_bill_number queries the setting.
generate_pdf_begin(p, product_type, grandTotal) ==
    /\ Free(p)
    /\ product_type \in DOMAIN settings
          => settings[product_type] < StartValue + run.alloc
    /\ proc' = [proc EXCEPT ![p] =
          [Idle EXCEPT !.pc = IF product_type \in DOMAIN settings
                               THEN "gnb_write" ELSE "gnb_insert",
                       !.kind = "create",
                       !.product_type = product_type,
                       !.grand_total = grandTotal,
                       !.cur = IF product_type \in DOMAIN settings
                                THEN settings[product_type] ELSE 0]]
    /\ UNCHANGED <<settings, stock, bills, issued, gaps, skipped, bill_items, run>>

\* No setting was found: one is added and committed.  A setting committed by
\* another handler in the meantime makes the insert fail.
get_next_bill_number_insert(p) ==
    /\ proc[p].pc = "gnb_insert"
    /\ IF proc[p].product_type \in DOMAIN settings
       THEN /\ proc' = [proc EXCEPT ![p] = Finish(p, "ServerError")]
            /\ UNCHANGED settings
       ELSE /\ settings' = [t \in DOMAIN settings \cup {proc[p].product_type} |->
                               IF t = proc[p].product_type THEN StartValue
                               ELSE settings[t]]
            /\ proc' = [proc EXCEPT ![p].pc = "gnb_reload"]
    /\ UNCHANGED <<stock, bills, issued, gaps, skipped, bill_items, run>>

\* After that commit the setting object is expired and read again.
get_next_bill_number_reload(p) ==
    /\ proc[p].pc = "gnb_reload"
    /\ proc' = [proc EXCEPT ![p].pc = "gnb_write",
                            ![p].cur = settings[proc[p].product_type]]
    /\ UNCHANGED <<settings, stock, bills, issued, gaps, skipped, bill_items, run>>

NextNumber(value) == value + 1

\* current_number = value + 1 is stored and committed, the number formatted.
get_next_bill_number(p) ==
    /\ proc[p].pc = "gnb_write"
    /\ settings' = [settings EXCEPT ![proc[p].product_type] = NextNumber(proc[p].cur)]
    /\ proc' = [proc EXCEPT ![p].pc = "header",
                            ![p].bill_number =
                                FormatBillNumber(proc[p].product_type,
                                                 NextNumber(proc[p].cur))]
    /\ UNCHANGED <<stock, bills, issued, gaps, skipped, bill_items, run>>

\* Faulty variant of generate_pdf_header: the insert goes through whether or
\* not the bill number exists.
generate_pdf_header_unchecked(p) ==
    /\ proc[p].pc = "header"
    /\ proc' = [proc EXCEPT ![p].pc = "items"]
    /\ UNCHANGED <<settings, stock, bills, issued, gaps, skipped, bill_items, run>>

\* The bill header is added and flushed; an existing bill number fails the
\* insert (primary key), the handler rolls back and answers 500.
generate_pdf_header(p) ==
    /\ proc[p].pc = "header"
    /\ proc' = [proc EXCEPT ![p] =
          IF Exists(proc[p].bill_number)
          THEN Finish(p, "ServerError")
          ELSE [proc[p] EXCEPT !.pc = "items"]]
    /\ UNCHANGED <<settings, stock, bills, issued, gaps, skipped, bill_items, run>>

\* if qty <= 0 or rate < 0 or amount < 0 or gst < 0: raise ValueError
ValidItem(item) ==
    ~(item.qty <= 0 \/ item.rate < 0 \/ item.amount < 0 \/ item.gst < 0)

\* Faulty variant of SufficientStock: the quantity on hand is not compared.
SufficientStock_any(available, qty) == TRUE

\* if product_to_update.stock_qty < qty: (insufficient)
SufficientStock(available, qty) == ~(available < qty)

Debit(available, qty) == available - qty

\* The numbers of a product type whose call failed for a missing product or
\* for lack of stock.
NoteSkipped(p) ==
    IF run.skips
    THEN [skipped EXCEPT ![proc[p].product_type] =
             @ \cup {SuffixOf(proc[p].bill_number)}]
    ELSE skipped

\* One pass of the loop over data['products'], for the item it reads.
generate_pdf_item(p, item) ==
    /\ proc[p].pc = "items"
    /\ Len(proc[p].products) < run.items
    /\     /\ proc' = [proc EXCEPT ![p] =
                 IF ~ValidItem(item) THEN Finish(p, "InvalidInput")
                 ELSE IF ~Known(p, item.name) THEN Finish(p, "ProductNotFound")
                 ELSE IF ~SufficientStock(StockSeen(p, item.name), item.qty)
                      THEN Finish(p, "InsufficientStock")
                 ELSE [proc[p] EXCEPT
                          !.sstock = SetLoaded(p, item.name,
                                               Debit(StockSeen(p, item.name), item.qty)),
                          !.products = Append(@, item)]]
           /\ stock' = IF proc'[p].pc = "done" THEN RollbackStock(p) ELSE stock
           /\ skipped' = IF ~ValidItem(item) THEN skipped
                          ELSE IF ~Known(p, item.name)
                                  \/ ~SufficientStock(StockSeen(p, item.name), item.qty)
                               THEN NoteSkipped(p)
                          ELSE skipped
    /\ UNCHANGED <<settings, bills, issued, gaps, bill_items, run>>

\* new_item = BillItem(bill..., product_name, quantity, rate, amount) for the
\* items of one bill, in the order they were added.
ItemRows(bill_number, items) ==
    {[bill_number |-> bill_number, pos |-> i, item |-> items[i]] :
        i \in 1 .. Len(items)}

NewBill(p) ==
    [bill_number |-> proc[p].bill_number,
     product_type |-> proc[p].product_type,
     grand_total |-> proc[p].grand_total,
     items |-> proc[p].products]

\* db.session.commit() after the loop, then the PDF is rendered.
generate_pdf_commit(p, renderOk) ==
    /\ proc[p].pc = "items"
    /\ IF Exists(proc[p].bill_number)
       THEN /\ proc' = [proc EXCEPT ![p] = Finish(p, "ServerError")]
            /\ stock' = RollbackStock(p)
            /\ UNCHANGED <<bills, bill_items, issued>>
       ELSE /\ bills' = bills \cup {NewBill(p)}
            /\ bill_items' = bill_items
                                 \cup ItemRows(proc[p].bill_number, proc[p].products)
            /\ stock' = FlushStock(p)
            /\ proc' = [proc EXCEPT ![p] =
                  Finish(p, IF renderOk THEN "ok" ELSE "ServerError")]
            /\ issued' = IF renderOk /\ run.observe
                          THEN [issued EXCEPT ![proc[p].product_type] =
                                   SuffixOf(proc[p].bill_number)]
                          ELSE issued
    /\ UNCHANGED <<settings, gaps, skipped, run>>

\* -------------------------------------------------- cancel_bill (CancelBill)
\* Faulty variant of CurrentIs: the number is reclaimed whenever the counter
\* has reached it.
CurrentIs_atleast(p, bill_number) ==
    /\ proc[p].product_type \in DOMAIN settings
    /\ settings[proc[p].product_type] >= SuffixOf(bill_number)

\* Faulty variant of CurrentIs: the number is not compared with the counter.
CurrentIs_always(p, bill_number) ==
    proc[p].product_type \in DOMAIN settings

\* if current_number == int(bill_number.split('-')[1])
CurrentIs(p, bill_number) ==
    /\ proc[p].product_type \in DOMAIN settings
    /\ settings[proc[p].product_type] = SuffixOf(bill_number)

\* The numbers of a product type that were cancelled while the counter stood
\* elsewhere.
NoteGap(product_type, bill_number) ==
    IF \/ ~run.observe
       \/ /\ product_type \in DOMAIN settings
          /\ settings[product_type] = SuffixOf(bill_number)
    THEN gaps
    ELSE [gaps EXCEPT ![product_type] = @ \cup {SuffixOf(bill_number)}]

\* A call of cancel_bill as it starts.
Called(bill_number) ==
    [Idle EXCEPT !.kind = "cancel", !.bill_number = bill_number]

\* Faulty variant of cancel_bill_not_found: a missing bill is answered like a
\* cancellation that has been done.
cancel_bill_not_found_ok(p, bill_number) ==
    /\ proc' = [proc EXCEPT ![p] =
          IF run.observe
          THEN [Called(bill_number) EXCEPT !.pc = "done", !.resp = "ok"]
          ELSE Idle]
    /\ UNCHANGED <<settings, stock, bills, bill_items, gaps>>

\* No bill has the number: 404.
cancel_bill_not_found(p, bill_number) ==
    /\ proc' = [proc EXCEPT ![p] =
          IF run.observe
          THEN [Called(bill_number) EXCEPT !.pc = "done", !.resp = "BillNotFound"]
          ELSE Idle]
    /\ UNCHANGED <<settings, stock, bills, bill_items, gaps>>

\* BillItem.query.filter_by(bill...).all(): the rows of the bill's items, in
\* the order they were added.
ItemsOf(bill_number) ==
    LET rows == {r \in bill_items : r.bill_number = bill_number}
    IN  [i \in 1 .. Cardinality(rows) |-> (CHOOSE r \in rows : r.pos = i).item]

\* Faulty variant of DeleteItems: the rows of the items stay.
DeleteItems_keeps(bill_number) == bill_items

\* db.session.delete(item) for the items of the bill (and the cascade of
\* Bill.items when the bill is deleted).
DeleteItems(bill_number) == {r \in bill_items : r.bill_number # bill_number}

\* Faulty variant of cancel_bill_no_items: the number of the bill is
\* reclaimed when the counter stands at it.
cancel_bill_no_items_reclaims(p, bill) ==
    /\ bills' = bills \ {bill}
    /\ bill_items' = DeleteItems(bill.bill_number)
    /\ gaps' = gaps
    /\ settings' = IF /\ bill.product_type \in DOMAIN settings
                       /\ settings[bill.product_type] = SuffixOf(bill.bill_number)
                    THEN [settings EXCEPT ![bill.product_type] = @ - 1]
                    ELSE settings
    /\ proc' = [proc EXCEPT ![p] =
          IF run.observe
          THEN [Called(bill.bill_number) EXCEPT
                   !.pc = "done", !.resp = "ok",
                   !.product_type = bill.product_type]
          ELSE Idle]
    /\ UNCHANGED stock

\* The bill has no items: it is deleted, that is committed and the call
\* answers success; decrement_bill_number is not reached.
cancel_bill_no_items(p, bill) ==
    /\ bills' = bills \ {bill}
    /\ bill_items' = DeleteItems(bill.bill_number)
    /\ gaps' = NoteGap(bill.product_type, bill.bill_number)
    /\ proc' = [proc EXCEPT ![p] =
          IF run.observe
          THEN [Called(bill.bill_number) EXCEPT
                   !.pc = "done", !.resp = "ok",
                   !.product_type = bill.product_type]
          ELSE Idle]
    /\ UNCHANGED <<settings, stock>>

\* The bill is looked up; a bill without items is deleted at once.
cancel_bill_begin(p, bill_number) ==
    /\ Free(p)
    /\ IF ~Exists(bill_number)
       THEN cancel_bill_not_found(p, bill_number)
       ELSE LET bill == BillWith(bill_number)
            IN  IF ItemsOf(bill_number) = <<>>
                THEN cancel_bill_no_items(p, bill)
                ELSE /\ proc' = [proc EXCEPT ![p] =
                           [Called(bill_number) EXCEPT
                               !.pc = "credit", !.idx = 1,
                               !.product_type = bill.product_type,
                               !.products = ItemsOf(bill_number)]]
                     /\ UNCHANGED <<settings, stock, bills, bill_items, gaps>>
    /\ UNCHANGED <<issued, skipped, run>>

\* Faulty variant of Credit: nothing is put back.
Credit_none(available, qty) == available

\* product.stock += item.qty
Credit(available, qty) == available + qty

\* Concurrent handlers can lose a debit, and cancelling the bills then puts
\* back more than was taken; the model follows a product's stock up to here.
StockCap == InitQty + MaxQty

\* Faulty variant of cancel_bill_credit: an item whose product is missing is
\* passed over.
cancel_bill_credit_skips(p) ==
    /\ proc[p].pc = "credit"
    /\ proc[p].idx <= Len(proc[p].products)
    /\ LET item == proc[p].products[proc[p].idx]
       IN  /\ Known(p, item.name)
                 => Credit(StockSeen(p, item.name), item.qty) <= StockCap
           /\ proc' = [proc EXCEPT ![p] =
                 IF ~Known(p, item.name) THEN [proc[p] EXCEPT !.idx = @ + 1]
                 ELSE [proc[p] EXCEPT
                          !.sstock = SetLoaded(p, item.name,
                                               Credit(StockSeen(p, item.name), item.qty)),
                          !.idx = @ + 1]]
    /\ UNCHANGED <<settings, stock, bills, issued, gaps, skipped, bill_items, run>>

\* One pass of the loop that puts the items' quantities back.
cancel_bill_credit(p) ==
    /\ proc[p].pc = "credit"
    /\ proc[p].idx <= Len(proc[p].products)
    /\ LET item == proc[p].products[proc[p].idx]
       IN  /\ Known(p, item.name)
                 => Credit(StockSeen(p, item.name), item.qty) <= StockCap
           /\ proc' = [proc EXCEPT ![p] =
                 IF ~Known(p, item.name) THEN Finish(p, "DataConsistency")
                 ELSE [proc[p] EXCEPT
                          !.sstock = SetLoaded(p, item.name,
                                               Credit(StockSeen(p, item.name), item.qty)),
                          !.idx = @ + 1]]
           /\ stock' = IF proc'[p].pc = "done" THEN RollbackStock(p) ELSE stock
    /\ UNCHANGED <<settings, bills, issued, gaps, skipped, bill_items, run>>

\* decrement_bill_number reads the setting and compares it with the number.
decrement_bill_number(p) ==
    /\ proc[p].pc = "credit"
    /\ proc[p].idx > Len(proc[p].products)
    /\ proc' = [proc EXCEPT ![p].pc = "cancel_commit",
                            ![p].reclaim = CurrentIs(p, proc[p].bill_number),
                            ![p].cur = IF proc[p].product_type \in DOMAIN settings
                                       THEN settings[proc[p].product_type] ELSE 0]
    /\ UNCHANGED <<settings, stock, bills, issued, gaps, skipped, bill_items, run>>

\* Faulty variant of Reclaimed: the counter is set back by two.
Reclaimed_two(value) == value - 2

\* setting.value = str(current_number - 1)
Reclaimed(value) == value - 1

\* Faulty variant of DeleteBill: the later bills of the product type move up
\* by one number.
DeleteBill_renumbers(bill_number) ==
    LET gone == BillWith(bill_number)
    IN  {IF b.product_type = gone.product_type
            /\ SuffixOf(b.bill_number) > SuffixOf(bill_number)
         THEN [b EXCEPT !.bill_number.num = @ - 1]
         ELSE b : b \in bills \ {gone}}

\* db.session.delete(bill)
DeleteBill(bill_number) == bills \ {BillWith(bill_number)}

\* The items and the bill are deleted, the setting is written back if the
\* number is reclaimed, and all of it is committed.  A bill that another
\* handler has deleted in the meantime fails the delete.
cancel_bill_commit(p) ==
    /\ proc[p].pc = "cancel_commit"
    /\ IF ~Exists(proc[p].bill_number)
       THEN /\ proc' = [proc EXCEPT ![p] = Finish(p, "ServerError")]
            /\ stock' = RollbackStock(p)
            /\ UNCHANGED <<settings, bills, bill_items, gaps>>
       ELSE /\ bills' = DeleteBill(proc[p].bill_number)
            /\ bill_items' = DeleteItems(proc[p].bill_number)
            /\ stock' = FlushStock(p)
            /\ settings' = IF proc[p].reclaim
                            THEN [settings EXCEPT ![proc[p].product_type] =
                                     Reclaimed(proc[p].cur)]
                            ELSE settings
            /\ gaps' = IF proc[p].reclaim \/ ~run.observe THEN gaps
                        ELSE [gaps EXCEPT ![proc[p].product_type] =
                                 @ \cup {SuffixOf(proc[p].bill_number)}]
            /\ proc' = [proc EXCEPT ![p] = Finish(p, "ok")]
    /\ UNCHANGED <<issued, skipped, run>>

\* ------------------------------------------------------- update_product
\* The catalogue form for one product is posted: the row gets the posted name
\* and stock quantity.  A name that another product has fails the commit
\* (unique constraint) and nothing is written.
update_product(product_name, name, stock_qty) ==
    /\ InFlight = {}
    /\ product_name \in DOMAIN stock
    /\ stock' = IF name # product_name /\ name \in DOMAIN stock
                THEN stock
                ELSE [n \in (DOMAIN stock \ {product_name}) \cup {name} |->
                         IF n = name THEN stock_qty ELSE stock[n]]
    /\ UNCHANGED <<settings, bills, proc, issued, gaps, skipped, bill_items, run>>

\* ------------------------------------------------------- specifications
Step(p) ==
    \/ \E t \in run.types, g \in run.totals : generate_pdf_begin(p, t, g)
    \/ get_next_bill_number_insert(p)
    \/ get_next_bill_number_reload(p)
    \/ get_next_bill_number(p)
    \/ generate_pdf_header(p)
    \/ \E item \in Item : generate_pdf_item(p, item)
    \/ \E renderOk \in BOOLEAN : generate_pdf_commit(p, renderOk)
    \/ \E b \in BillNumbers : cancel_bill_begin(p, b)
    \/ cancel_bill_credit(p)
    \/ decrement_bill_number(p)
    \/ cancel_bill_commit(p)

\* Calls one after the other: a call runs to its end before the next starts.
Next == Step(1)

Spec == Init /\ [][Next]_vars

\* Calls one after the other, products being renamed between calls (the form
\* is posted with the quantity it was loaded with).
NextCatalogue ==
    \/ Step(1)
    \/ \E product_name \in DOMAIN stock, name \in ProductNames :
          update_product(product_name, name, stock[product_name])

SpecCatalogue == InitCatalogue /\ [][NextCatalogue]_vars

\* Calls of several handlers, their steps interleaved.
NextConc == \E p \in Procs : Step(p)

SpecConc == InitConc /\ [][NextConc]_vars

\* Both kinds of run: calls one after the other (only handler 1 is used), and
\* calls of several handlers with their steps interleaved.
InitAll == run \in SeqRuns \cup ConcRuns /\ Start

Active(p) == run.observe => p = 1

NextAll ==
    \E p \in Procs :
        \/ Active(p) /\ \E t \in run.types, g \in run.totals :
                            generate_pdf_begin(p, t, g)
        \/ Active(p) /\ get_next_bill_number_insert(p)
        \/ Active(p) /\ get_next_bill_number_reload(p)
        \/ Active(p) /\ get_next_bill_number(p)
        \/ Active(p) /\ generate_pdf_header(p)
        \/ Active(p) /\ \E item \in Item : generate_pdf_item(p, item)
        \/ Active(p) /\ \E renderOk \in BOOLEAN : generate_pdf_commit(p, renderOk)
        \/ Active(p) /\ \E b \in BillNumbers : cancel_bill_begin(p, b)
        \/ Active(p) /\ cancel_bill_credit(p)
        \/ Active(p) /\ decrement_bill_number(p)
        \/ Active(p) /\ cancel_bill_commit(p)

SpecAll == InitAll /\ [][NextAll]_vars

\* ------------------------------------------------- migration.py
\* The settings the script adds; the handlers of app.py use the keys
\* last_<product type>_bill_number, which the model writes as the product type.
MigrationKeys ==
    {"last_bill_number_fertilizer", "last_bill_number_pesticide",
     "last_bill_number_general"}

\* A bill number of the legacy scheme is a plain integer.  In the runs of the
\* script the prefix of a bill number is the sequence of the prefixes put in
\* front of the integer; the integer's text is zero-filled to three digits.
LegacyNumber(n) == [pfx |-> <<>>, num |-> n]

LegacyBill(n, date) ==
    [id |-> n, bill_number |-> LegacyNumber(n), bill_date |-> date,
     product_type |-> "fertilizer", grand_total |-> 1,
     items |-> <<Line("Urea", 1)>>]

\* The bill tables the script may find: any bills of the legacy scheme.
LegacyLedgers ==
    {{LegacyBill(n, date[n]) : n \in ns} :
        ns \in SUBSET (1 .. MaxLegacy),
        date \in [1 .. MaxLegacy -> 1 .. MaxDate]}

ContainsSlash(bill_number) ==
    \E i \in 1 .. Len(bill_number.pfx) : bill_number.pfx[i] = "BT/OLD/"

\* Faulty variant of IsLegacy: every bill is taken for a legacy bill.
IsLegacy_all(bill) == TRUE

\* Bill.bill_number.notlike('%/%')
IsLegacy(bill) == ~ContainsSlash(bill.bill_number)

\* f"BT/OLD/{str(old_number).zfill(3)}"
Renamed(bill_number) == [bill_number EXCEPT !.pfx = <<"BT/OLD/">> \o @]

RunsDone(p) == IF proc[p].kind = "migrate" THEN proc[p].idx ELSE 0

\* Step 1 of the script: the settings that are missing are added with value
\* 0 and committed.  (Step 2 alters a column type and changes no row.)
run_migration_settings(p) ==
    /\ Free(p)
    /\ RunsDone(p) < MaxRuns
    /\ settings' = [k \in DOMAIN settings \cup MigrationKeys |->
                       IF k \in DOMAIN settings THEN settings[k] ELSE 0]
    /\ proc' = [proc EXCEPT ![p] =
          [Idle EXCEPT !.pc = "mig_bills", !.kind = "migrate",
                       !.idx = RunsDone(p)]]
    /\ UNCHANGED <<stock, bills, issued, gaps, skipped, bill_items, run>>

\* Step 3 of the script: every bill whose number has no '/' gets its number
\* prefixed, and the changes are committed.
run_migration_bills(p) ==
    /\ proc[p].pc = "mig_bills"
    /\ bills' = {IF IsLegacy(b)
                 THEN [b EXCEPT !.bill_number = Renamed(@)]
                 ELSE b : b \in bills}
    /\ proc' = [proc EXCEPT ![p].pc = "done", ![p].resp = "ok",
                            ![p].idx = @ + 1]
    /\ UNCHANGED <<settings, stock, issued, gaps, skipped, bill_items, run>>

\* A step of the script raises: before the commit of step 1, or after it in
\* step 2 or step 3.  The handler of the exception rolls the session back,
\* which undoes what has not been committed.
run_migration_fails(p) ==
    /\ \/ Free(p) /\ RunsDone(p) < MaxRuns
       \/ proc[p].pc = "mig_bills"
    /\ proc' = [proc EXCEPT ![p] =
          [Idle EXCEPT !.pc = "done", !.kind = "migrate",
                       !.resp = "MigrationFailed", !.idx = RunsDone(p)]]
    /\ UNCHANGED <<settings, stock, bills, issued, gaps, skipped, bill_items, run>>

MigrationRuns ==
    [types : {{"fertilizer"}}, alloc : {SmallAlloc}, items : {ConcItems},
     observe : {TRUE}, totals : {{0}},
     skips : {FALSE}]

\* The script is run, and run again, on a database with legacy bills; no
\* handler of the application runs.  The script reads and writes the tables
\* settings and bills only; the runs follow these two.
InitMigration ==
    /\ run \in MigrationRuns
    /\ settings = [t \in {"fertilizer", "pesticide"} |-> StartValue]
    /\ stock = [n \in Products |-> InitQty]
    /\ bills \in LegacyLedgers
    /\ proc = [p \in Procs |-> Idle]
    /\ issued = [t \in ProductTypes |-> 0]
    /\ gaps = [t \in ProductTypes |-> {}]
    /\ skipped = [t \in ProductTypes |-> {}]
    /\ bill_items = {}

NextMigration ==
    \/ run_migration_settings(1)
    \/ run_migration_bills(1)
    \/ run_migration_fails(1)

SpecMigration == InitMigration /\ [][NextMigration]_vars

\* A bill number that get_next_bill_number has returned, as the script reads
\* it: its prefix is the one part in front of the integer.
Stored(bill_number) == [pfx |-> <<bill_number.pfx>>, num |-> bill_number.num]

IssuedBill(product_type, n) ==
    [id |-> n, bill_number |-> Stored(FormatBillNumber(product_type, n)),
     bill_date |-> MaxDate, product_type |-> product_type, grand_total |-> 1,
     items |-> <<Line("Urea", 1)>>]

\* The bills the application may have created before the script is run.
IssuedLedgers ==
    SUBSET {IssuedBill(t, StartValue + 1) : t \in {"fertilizer", "pesticide"}}

\* The script is run on a database with legacy bills and bills created by
\* the application.
InitMigrated ==
    /\ run \in MigrationRuns
    /\ settings = [t \in {"fertilizer", "pesticide"} |-> StartValue]
    /\ stock = [n \in Products |-> InitQty]
    /\ \E old \in LegacyLedgers, new \in IssuedLedgers : bills = old \cup new
    /\ proc = [p \in Procs |-> Idle]
    /\ issued = [t \in ProductTypes |-> 0]
    /\ gaps = [t \in ProductTypes |-> {}]
    /\ skipped = [t \in ProductTypes |-> {}]
    /\ bill_items = {}

SpecMigrated == InitMigrated /\ [][NextMigration]_vars

\* Calls one after the other for two product types with the same prefix.
InitMixed == run \in MixedRuns /\ Start

SpecMixed == InitMixed /\ [][Next]_vars

\* Calls one after the other with any grand total sent by the caller.
InitTotals == run \in TotalRuns /\ Start

SpecTotals == InitTotals /\ [][Next]_vars

\* ------------------------------------------------- reset_new_bills.py
\* What the operator types at the prompt of the script.
Confirms == {"yes", "YES", "no", ""}

\* confirm.lower()
Lower(confirm) == IF confirm = "YES" THEN "yes" ELSE confirm

\* Bill.bill_number.startswith(prefix): the text of a bill number begins with
\* its prefix part, and the prefixes asked for end where the integer begins.
StartsWith(bill_number, prefix) == bill_number.pfx = prefix

\* Bill.query.filter(startswith('BT/P/'), startswith('BT/F/')): the two
\* conditions of one filter are joined by AND.
BillsToDelete ==
    {b \in bills : /\ StartsWith(b.bill_number, "BT/P/")
                   /\ StartsWith(b.bill_number, "BT/F/")}

\* The settings the script sets to 0 when it finds them.
SettingsToReset == {"last_bill_number_pesticide", "last_bill_number_fertilizer"}

\* The script is run between two calls of the application: without the
\* answer yes it returns at once; with it, the items of the bills found and
\* the bills are deleted, the settings found are set to 0 and all of it is
\* committed.  (The table of reusable bill numbers the script clears has no
\* model class in app.py and no row the application reads.)
reset_new_billing_data(p, confirm) ==
    /\ Free(p)
    /\ IF Lower(confirm) # "yes"
       THEN /\ proc' = [proc EXCEPT ![p] =
                  [Idle EXCEPT !.pc = "done", !.kind = "reset",
                               !.resp = "cancelled"]]
            /\ UNCHANGED <<settings, bills, bill_items>>
       ELSE /\ bill_items' = {r \in bill_items :
                                 \A b \in BillsToDelete :
                                    r.bill_number # b.bill_number}
            /\ bills' = bills \ BillsToDelete
            /\ settings' = [k \in DOMAIN settings |->
                               IF k \in SettingsToReset THEN 0 ELSE settings[k]]
            /\ proc' = [proc EXCEPT ![p] =
                  [Idle EXCEPT !.pc = "done", !.kind = "reset", !.resp = "ok"]]
    /\ UNCHANGED <<stock, issued, gaps, skipped, run>>

ResetRuns ==
    [types : TypeSets, alloc : {SmallAlloc}, items : {MaxItems},
     observe : {TRUE}, totals : {{0}},
     skips : {FALSE}]

InitReset == run \in ResetRuns /\ Start

\* Calls one after the other, the script being run between calls.
NextReset ==
    \/ Step(1)
    \/ \E confirm \in Confirms : reset_new_billing_data(1, confirm)

SpecReset == InitReset /\ [][NextReset]_vars

\* ------------------------------------------------------------ observations
\* The call of handler p ends with this step.
Ends(p) == proc'[p].pc = "done" /\ proc'[p] # proc[p]

EndsWith(p, kind, resp) ==
    Ends(p) /\ proc'[p].kind = kind /\ proc'[p].resp = resp

Answered(p, kind, resp) ==
    proc[p].pc = "done" /\ proc[p].kind = kind /\ proc[p].resp = resp

RECURSIVE QtyIn(_, _)
QtyIn(items, name) ==
    IF items = <<>> THEN 0
    ELSE (IF Head(items).name = name THEN Head(items).qty ELSE 0)
             + QtyIn(Tail(items), name)

RECURSIVE SoldIn(_, _)
SoldIn(bs, name) ==
    IF bs = {} THEN 0
    ELSE LET b == CHOOSE x \in bs : TRUE
         IN  QtyIn(b.items, name) + SoldIn(bs \ {b}, name)

\* The bill is there after the step.
ExistsAfter(bill_number) == \E b \in bills' : b.bill_number = bill_number

\* Sum of the line amounts plus the tax on each.
RECURSIVE ComputedTotal(_)
ComputedTotal(items) ==
    IF items = <<>> THEN 0
    ELSE Head(items).amount + (Head(items).amount * Head(items).gst) \div 100
             + ComputedTotal(Tail(items))

BillsOf(product_type) == {b \in bills : b.product_type = product_type}

\* The counter of the bill's product type stands at the bill's number.
IsCurrent(bill) ==
    /\ bill.product_type \in DOMAIN settings
    /\ settings[bill.product_type] = SuffixOf(bill.bill_number)

\* ------------------------------------------------------------------ C1
\* C1 as stated: within a product type, every number returned by a successful
\* CreateBill is greater than the one returned before it, so none is
\* returned twice.
C1_NeverReissued ==
    [][\A p \in Procs :
          EndsWith(p, "create", "ok")
              => issued[proc'[p].product_type] < SuffixOf(proc'[p].bill_number)]_vars

\* C1 amended: within a product type, every number returned by a successful
\* CreateBill is greater than the number of every bill of that type that
\* exists at that moment (numbers of existing bills never repeat; a number
\* freed by cancelling the latest bill is handed out again).
C1_AboveExisting ==
    [][\A p \in Procs :
          EndsWith(p, "create", "ok")
              => \A b \in BillsOf(proc'[p].product_type) :
                    SuffixOf(b.bill_number) < SuffixOf(proc'[p].bill_number)]_vars

\* A bill was created while a bill with a smaller number of its type exists.
C1_Witness ==
    \E p \in Procs :
        /\ Answered(p, "create", "ok")
        /\ \E b \in BillsOf(proc[p].product_type) :
              SuffixOf(b.bill_number) < SuffixOf(proc[p].bill_number)

\* ------------------------------------------------------------------ C2
\* C2: after any sequence of CreateBill and CancelBill calls every product's
\* stock is its initial stock minus the quantities of that product in the
\* items of the bills that exist.
C2_StockLedger ==
    \A n \in Products : stock[n] = InitQty - SoldIn(bills, n)

\* A bill was cancelled and its stock is back while another bill still holds
\* stock.
C2_Witness ==
    \E p \in Procs :
        /\ Answered(p, "cancel", "ok")
        /\ proc[p].idx > 0
        /\ \E n \in Products : stock[n] = InitQty
        /\ \E n \in Products : SoldIn(bills, n) > 0

\* ------------------------------------------------------------------ C3
\* C3: CreateBill calls of one product type that run at the same time never
\* hold the same sequence value.
C3_DistinctValues ==
    \A p, q \in Procs :
        (/\ p # q
         /\ proc[p].pc \in {"header", "items"}
         /\ proc[q].pc \in {"header", "items"}
         /\ proc[p].product_type = proc[q].product_type)
            => proc[p].bill_number # proc[q].bill_number

\* ------------------------------------------------------------------ C4
\* C4: the bills that were committed never debit a product beyond the stock
\* it had (two calls whose quantities together exceed the stock do not both
\* succeed).
C4_NoOversell ==
    \A n \in Products : SoldIn(bills, n) <= InitQty

\* ------------------------------------------------------------------ C5
\* C5: a CreateBill call that meets a line item exceeding the stock leaves
\* every product's stock as it was before the call: no step of the call up to
\* and including the one that answers InsufficientStock changes the stock.
C5_AllOrNothing ==
    [][\A p \in Procs :
          (/\ proc[p].kind = "create"
           /\ ~Free(p)
           /\ proc'[p] # proc[p]
           /\ \/ ~Free(p)'
              \/ proc'[p].resp = "InsufficientStock")
              => stock' = stock]_vars

\* InsufficientStock was answered after an earlier item had been debited.
C5_Witness ==
    \E p \in Procs :
        Answered(p, "create", "InsufficientStock") /\ proc[p].idx > 0

\* ------------------------------------------------------------------ C6
\* C6: a CreateBill call that answers an error has persisted nothing: bills
\* (with their items) and stock are as they were.
C6_ErrorPersistsNothing ==
    [][\A p \in Procs :
          (Ends(p) /\ proc'[p].kind = "create" /\ proc'[p].resp # "ok")
              => bills' = bills /\ stock' = stock]_vars

\* ------------------------------------------------------------------ C7
\* C7: a successful CancelBill of the bill whose number is the counter of its
\* product type lowers that counter by one.
C7_ReclaimsLatest ==
    [][\A p \in Procs :
          (/\ EndsWith(p, "cancel", "ok")
           /\ IsCurrent(BillWith(proc'[p].bill_number)))
              => settings'[proc'[p].product_type]
                    = settings[proc'[p].product_type] - 1]_vars

\* ------------------------------------------------------------------ C8
\* C8: a successful CancelBill of a bill whose number is not the counter of
\* its product type removes the bill, puts the quantities of its items back
\* into stock and leaves the counter as it was; every number CreateBill
\* allocates is the counter plus one; and no bill of the product type ever
\* carries a number that was cancelled that way (the gap stays).
C8_GapKept ==
    /\ [][\A p \in Procs :
             (/\ EndsWith(p, "cancel", "ok")
              /\ ~IsCurrent(BillWith(proc'[p].bill_number)))
                 => /\ settings' = settings
                    /\ ~ExistsAfter(proc'[p].bill_number)
                    /\ \A n \in DOMAIN stock :
                          stock'[n] = stock[n]
                              + QtyIn(BillWith(proc'[p].bill_number).items, n)]_vars
    /\ [][\A p \in Procs :
             (proc[p].pc = "gnb_write" /\ proc'[p].pc = "header")
                 => proc'[p].bill_number
                       = FormatBillNumber(proc[p].product_type,
                                          settings[proc[p].product_type] + 1)]_vars
    /\ [](\A t \in ProductTypes : \A b \in BillsOf(t) :
             SuffixOf(b.bill_number) \notin gaps[t])

\* A bill with items has been cancelled while the counter stood above its
\* number: the number is on record as a gap and the counter is still above it.
C8_Witness ==
    \E p \in Procs :
        /\ Answered(p, "cancel", "ok")
        /\ proc[p].idx > 0
        /\ SuffixOf(proc[p].bill_number) \in gaps[proc[p].product_type]
        /\ SuffixOf(proc[p].bill_number) < settings[proc[p].product_type]
        /\ BillsOf(proc[p].product_type) # {}

\* ------------------------------------------------------------------ C9
\* C9: a CancelBill call for a number that no bill has answers BillNotFound
\* and changes no setting, no stock and no bill.
C9_NotFoundNoChange ==
    [][\A p \in Procs :
          (/\ Ends(p)
           /\ proc'[p].kind = "cancel"
           /\ ~Exists(proc'[p].bill_number))
              => /\ proc'[p].resp = "BillNotFound"
                 /\ UNCHANGED <<settings, stock, bills>>]_vars

\* BillNotFound was answered for the number CreateBill returned last, i.e.
\* for a bill that has been cancelled already.
C9_Witness ==
    \E p \in Procs : \E t \in run.types :
        /\ Answered(p, "cancel", "BillNotFound")
        /\ proc[p].bill_number = FormatBillNumber(t, issued[t])

\* ----------------------------------------------------------------- C10
\* C10: a CancelBill call that reaches an item whose product is not in the
\* catalogue answers the data-consistency error; the bill with its items is
\* still there, and no setting, no stock and no bill has changed at any step
\* of the call.
C10_MissingProductRollsBack ==
    [][\A p \in Procs :
          /\ (/\ proc[p].pc = "credit"
              /\ proc'[p] # proc[p]
              /\ proc[p].idx <= Len(proc[p].products)
              /\ ~Known(p, proc[p].products[proc[p].idx].name))
                 => proc'[p].resp = "DataConsistency"
          /\ (/\ proc[p].kind = "cancel"
              /\ ~Free(p)
              /\ proc'[p] # proc[p]
              /\ \/ ~Free(p)'
                 \/ proc'[p].resp = "DataConsistency")
                 => /\ UNCHANGED <<settings, stock, bills>>
                    /\ ExistsAfter(proc[p].bill_number)]_vars

\* The data-consistency error was answered after an earlier item of the bill
\* had been credited.
C10_Witness ==
    \E p \in Procs :
        /\ Answered(p, "cancel", "DataConsistency")
        /\ proc[p].idx > 0
        /\ Exists(proc[p].bill_number)

\* ----------------------------------------------------------------- C11
\* C11: a counter changes only in two ways: a step of an allocation for its
\* product type raises it by exactly one, and a step of a cancellation of a
\* bill of its product type lowers it by exactly one, and that only when the
\* counter stands at the number of the bill being cancelled.
C11_CounterSteps ==
    [][\A t \in DOMAIN settings :
          \/ settings'[t] = settings[t]
          \/ /\ settings'[t] = settings[t] + 1
             /\ \E p \in Procs :
                   proc[p].pc = "gnb_write" /\ proc[p].product_type = t
          \/ /\ settings'[t] = settings[t] - 1
             /\ \E p \in Procs :
                   /\ proc[p].pc = "cancel_commit"
                   /\ proc[p].product_type = t
                   /\ settings[t] = SuffixOf(proc[p].bill_number)]_vars

\* ----------------------------------------------------------------- C12
\* C12: a CreateBill call with an empty list of line items creates no bill:
\* no bill without items is ever stored.
C12_EmptyListRejected ==
    \A b \in bills : b.items # <<>>

\* ----------------------------------------------------------------- C13
\* C13: a CreateBill call that answers InvalidInput has changed nothing:
\* bills and stock are as they were, and the counter of the product type
\* still has the value the call found (proc[p].cur).
C13_InvalidInputNoChange ==
    [][\A p \in Procs :
          EndsWith(p, "create", "InvalidInput")
              => /\ bills' = bills
                 /\ stock' = stock
                 /\ settings'[proc[p].product_type] = proc[p].cur]_vars

\* ----------------------------------------------------------------- C14
\* C14: in every reachable state, whether the calls run one after the other
\* or interleaved, the stock of every product is at least 0, in the committed
\* rows and in every session.
C14_StockNeverNegative ==
    /\ \A n \in DOMAIN stock : stock[n] >= 0
    /\ \A p \in Procs : \A n \in DOMAIN proc[p].sstock : proc[p].sstock[n] >= 0

\* Interleaved calls have sold more of a product than there was, and its
\* stock stands at 0.
C14_Witness ==
    \E n \in DOMAIN stock : SoldIn(bills, n) > InitQty /\ stock[n] = 0

\* ----------------------------------------------------------------- C15
\* C15: a stored bill keeps its number, its product type and its items for as
\* long as it exists, and it goes away only by its own cancellation: no step
\* changes the bill stored under a number, no step removes one bill and adds
\* another (renumbering), no step removes more than one bill, no step of a
\* CreateBill call removes a bill, and the bill a CancelBill step removes is
\* the bill that call was asked for.
C15_BillsImmutable ==
    [][/\ \A b \in bills : \A c \in bills' :
             b.bill_number = c.bill_number => b = c
       /\ ~(bills \ bills' # {} /\ bills' \ bills # {})
       /\ Cardinality(bills \ bills') <= 1
       /\ \A p \in Procs :
             /\ (proc[p].kind = "create" /\ ~Free(p) /\ proc'[p] # proc[p])
                   => bills \ bills' = {}
             /\ (proc[p].pc = "cancel_commit" /\ proc'[p] # proc[p])
                   => \A b \in bills \ bills' :
                         b.bill_number = proc[p].bill_number
             /\ EndsWith(p, "cancel", "ok")
                   => \A b \in bills \ bills' :
                         b.bill_number = proc'[p].bill_number]_vars

\* A bill with items has been cancelled and a bill with items that was
\* created after it is still stored under its own, higher number.
C15_Witness ==
    \E p \in Procs :
        /\ Answered(p, "cancel", "ok")
        /\ proc[p].idx > 0
        /\ \E b \in BillsOf(proc[p].product_type) :
              /\ b.items # <<>>
              /\ SuffixOf(b.bill_number) > SuffixOf(proc[p].bill_number)

\* ----------------------------------------------------------------- C16
\* C16: the number an allocation returns for one product type is never the
\* number of a stored bill of another product type.
C16_PrefixPerCategory ==
    [][\A p \in Procs :
          (proc[p].pc = "gnb_write" /\ proc'[p].pc = "header")
              => \A b \in bills :
                    b.product_type # proc[p].product_type
                        => b.bill_number # proc'[p].bill_number]_vars

\* ----------------------------------------------------------------- C17
\* C17: the grand total stored with a bill that has items is the sum of the
\* amounts of its items plus tax, whatever grand total the caller sent.
C17_TotalComputed ==
    \A b \in bills :
        b.items # <<>> => b.grand_total = ComputedTotal(b.items)

\* ----------------------------------------------------------------- C18
\* C18: when the number allocated for a new bill is the number of a stored
\* bill, the insert of the header ends the call with an error; the stored
\* bills (with their items) and the stock are left as they are.
C18_DuplicateRejected ==
    [][\A p \in Procs :
          (/\ proc[p].pc = "header"
           /\ proc'[p] # proc[p]
           /\ Exists(proc[p].bill_number))
              => /\ Ends(p)
                 /\ proc'[p].resp = "ServerError"
                 /\ bills' = bills
                 /\ stock' = stock]_vars

\* A CreateBill call was refused because its number belongs to a stored bill
\* with items, while the stock the call could have debited is untouched.
C18_Witness ==
    \E p \in Procs :
        /\ Answered(p, "create", "ServerError")
        /\ Exists(proc[p].bill_number)
        /\ BillWith(proc[p].bill_number).product_type # proc[p].product_type
        /\ BillWith(proc[p].bill_number).items # <<>>
        /\ \E n \in Products : stock[n] = InitQty

\* ----------------------------------------------------------------- C19
\* C19: once the migration script has run to its end, no step of a further
\* run of it changes a bill or a setting.
C19_MigrationIdempotent ==
    [][\A p \in Procs :
          (/\ proc[p].kind = "migrate"
           /\ proc[p].idx >= 1
           /\ proc'[p] # proc[p])
              => bills' = bills /\ settings' = settings]_vars

\* The script has run twice over a database in which the first run renamed
\* a bill.
C19_Witness ==
    \E p \in Procs :
        /\ Answered(p, "migrate", "ok")
        /\ proc[p].idx >= 2
        /\ \E b \in bills : ContainsSlash(b.bill_number)

\* ----------------------------------------------------------------- C20
\* C20: the step of the migration script that rewrites the N legacy bills
\* gives them exactly the numbers 1..N, in the order of their bill dates and,
\* within a date, of their old numbers, and leaves the counter at N.
C20_DenseRenumbering ==
    [][\A p \in Procs :
          (proc[p].pc = "mig_bills" /\ proc'[p].pc = "done" /\ proc[p].idx = 0)
              => LET N == Cardinality(bills)
                     new(a) == CHOOSE b \in bills' : b.id = a.id
                 IN  /\ Cardinality(bills') = N
                     /\ {b.bill_number.num : b \in bills'} = 1 .. N
                     /\ \A a, b \in bills :
                           (\/ a.bill_date < b.bill_date
                            \/ /\ a.bill_date = b.bill_date
                               /\ a.bill_number.num < b.bill_number.num)
                              => new(a).bill_number.num < new(b).bill_number.num
                     /\ \/ settings'["last_bill_number_fertilizer"] = N
                        \/ settings'["fertilizer"] = N]_vars

\* ----------------------------------------------------------------- C21
\* C21: the step of the migration script that rewrites the bills puts every
\* bill whose number is a plain integer under the prefix BT/OLD/ with the
\* same integer, so that distinct legacy numbers stay distinct, and leaves
\* every other bill as it is; in particular a bill whose number was returned
\* by get_next_bill_number (F-<n>, P-<n>) keeps its number.
C21_OnlyLegacyRewritten ==
    [][\A p \in Procs :
          (proc[p].pc = "mig_bills" /\ proc'[p].pc = "done"
              /\ proc'[p].resp = "ok")
              => /\ \A b \in bills :
                       IF b.bill_number.pfx = <<>>
                       THEN /\ b \notin bills'
                            /\ [b EXCEPT !.bill_number.pfx = <<"BT/OLD/">>]
                                   \in bills'
                       ELSE b \in bills'
                 /\ Cardinality(bills') = Cardinality(bills)]_vars

\* ----------------------------------------------------------------- C23
\* C23: a run of the migration script that fails leaves the database as it
\* was when the run started: the failing step changes no bill and no
\* setting, and as long as no run has gone through, a failed run leaves none
\* of the script's settings behind and no bill renamed.
C23_FailureRollsBack ==
    /\ [][\A p \in Procs :
             (proc'[p].resp = "MigrationFailed" /\ proc'[p] # proc[p])
                 => bills' = bills /\ settings' = settings]_vars
    /\ [](\A p \in Procs :
             (Answered(p, "migrate", "MigrationFailed") /\ proc[p].idx = 0)
                 => /\ \A k \in MigrationKeys : k \notin DOMAIN settings
                    /\ \A b \in bills : ~ContainsSlash(b.bill_number))

\* ----------------------------------------------------------------- C24
\* C24: a number that was allocated by a CreateBill call which then failed
\* for a missing product or for lack of stock is never the number of a
\* stored bill of that product type, whatever calls are made afterwards.
C24_SkippedNeverUsed ==
    \A t \in ProductTypes : \A b \in BillsOf(t) :
        SuffixOf(b.bill_number) \notin skipped[t]

\* A later bill with items was created above a skipped number and cancelled
\* again, which has brought the counter back down to the skipped number.
C24_Witness ==
    \E p \in Procs : \E t \in run.types :
        /\ Answered(p, "cancel", "ok")
        /\ proc[p].idx > 0
        /\ proc[p].product_type = t
        /\ SuffixOf(proc[p].bill_number) - 1 \in skipped[t]
        /\ settings[t] = SuffixOf(proc[p].bill_number) - 1

\* ----------------------------------------------------------------- C25
\* C25: the reclaim of a CancelBill call does not undo an allocation made by
\* a CreateBill call that ran at the same time: when the counter of the
\* product type is not below the number of any stored bill of that type
\* before the step that commits the cancellation with its reclaim, it is not
\* below any of them after it (so the next allocation, counter plus one, is
\* not the number of a stored bill), and it is lowered by at most one.
C25_ReclaimKeepsAllocation ==
    [][\A p \in Procs :
          LET t == proc[p].product_type
          IN  (/\ proc[p].pc = "cancel_commit"
               /\ proc[p].reclaim
               /\ proc'[p] # proc[p]
               /\ \A b \in BillsOf(t) : settings[t] >= SuffixOf(b.bill_number))
                  => /\ \A b \in bills' :
                           b.product_type = t
                               => settings'[t] >= SuffixOf(b.bill_number)
                     /\ settings'[t] >= settings[t] - 1]_vars

\* ----------------------------------------------------------------- C26
\* C26: in every state reached by CreateBill and CancelBill calls made one
\* after the other, the counter of every product type is at least the number
\* of every stored bill of that type.
C26_CounterCoversBills ==
    \A b \in bills :
        /\ b.product_type \in DOMAIN settings
        /\ settings[b.product_type] >= SuffixOf(b.bill_number)

\* The latest bill has been cancelled with its number reclaimed, and the
\* counter now stands exactly at the number of a bill that is still stored.
C26_Witness ==
    \E p \in Procs :
        /\ Answered(p, "cancel", "ok")
        /\ proc[p].idx > 0
        /\ settings[proc[p].product_type] = SuffixOf(proc[p].bill_number) - 1
        /\ \E b \in BillsOf(proc[p].product_type) : IsCurrent(b)

\* ----------------------------------------------------------------- C27
\* C27: in every reachable state, whether the calls run one after the other
\* or interleaved, every stored row of bill_items refers to a stored bill: a
\* cancellation takes the bill's items away with the bill, and a CreateBill
\* call that fails leaves no item behind.
C27_ItemsHaveBill ==
    \A r \in bill_items : \E b \in bills : b.bill_number = r.bill_number

\* A bill with items has been cancelled and none of its rows is left, while
\* the rows of another bill are still stored.
C27_Witness ==
    \E p \in Procs :
        /\ Answered(p, "cancel", "ok")
        /\ proc[p].idx > 0
        /\ ItemsOf(proc[p].bill_number) = <<>>
        /\ bill_items # {}

C22_ResetClearsNewBills ==
    [][\A p \in Procs :
          /\ (proc'[p].kind = "reset" /\ proc'[p].resp = "ok")
                => /\ \A b \in bills' :
                         b.product_type \notin {"pesticide", "fertilizer"}
                   /\ \A r \in bill_items' : \A b \in bills :
                         r.bill_number = b.bill_number
                             => b.product_type \notin {"pesticide", "fertilizer"}
                   /\ \A t \in {"pesticide", "fertilizer"} :
                         NextNumber(IF t \in DOMAIN settings'
                                    THEN settings'[t] ELSE StartValue) = 1
          /\ (proc'[p].kind = "reset" /\ proc'[p].resp = "cancelled")
                => UNCHANGED <<settings, stock, bills, bill_items>>]_vars

====
